---- MODULE Spec2Model ----
(***************************************************************************)
(* gootrago: the csv command (cmd/common.go csvCmd.RunE), its column       *)
(* reference decoder (decodeColNumbers, titleToNumber) and the translation *)
(* dispatcher (cmd/translateEx.go translateEx, translateBasic,             *)
(* translateAdvanced).                                                     *)
(*                                                                         *)
(* A string is a sequence of one-character strings, <<"A","1">> for "A1".  *)
(***************************************************************************)
EXTENDS Integers, Sequences, FiniteSets, TLC

\* ------------------------------------------------------------------ bounds
\* longest column reference of the exhaustive token set
MaxTokLen == 3
\* widest row the exhaustive token set is decoded against
MaxWidth == 3
\* widest row the decimal and letter references are decoded against
MaxBigWidth == 28
\* rows and columns of the input table of the csv command
MaxRows == 2
MaxCols == 3
\* column references given to one csv run
MaxRefs == 2
\* translations the upstream may return beyond the batch length
MaxExtra == 1
MaxTicks == 3

\* --------------------------------------------------------------- characters
UpperSeq ==
  <<"A","B","C","D","E","F","G","H","I","J","K","L","M",
    "N","O","P","Q","R","S","T","U","V","W","X","Y","Z">>

LowerSeq ==
  <<"a","b","c","d","e","f","g","h","i","j","k","l","m",
    "n","o","p","q","r","s","t","u","v","w","x","y","z">>

DigitSeq == <<"0","1","2","3","4","5","6","7","8","9">>

Range(s) == {s[j] : j \in DOMAIN s}

IndexOf(s, c) == CHOOSE j \in DOMAIN s : s[j] = c

\* the byte value of a character (ASCII)
Ord(c) ==
  IF c \in Range(UpperSeq) THEN 64 + IndexOf(UpperSeq, c)
  ELSE IF c \in Range(LowerSeq) THEN 96 + IndexOf(LowerSeq, c)
  ELSE IF c \in Range(DigitSeq) THEN 47 + IndexOf(DigitSeq, c)
  ELSE IF c = " " THEN 32
  ELSE IF c = "+" THEN 43
  ELSE 45

\* strings.TrimSpace: drop leading and trailing white space
RECURSIVE TrimLeft(_)
TrimLeft(s) ==
  IF s # << >> /\ Head(s) = " " THEN TrimLeft(Tail(s)) ELSE s

RECURSIVE TrimRight(_)
TrimRight(s) ==
  IF s # << >> /\ s[Len(s)] = " " THEN TrimRight(SubSeq(s, 1, Len(s) - 1)) ELSE s

TrimSpace(s) == TrimRight(TrimLeft(s))

\* the lower-case form of a reference
ToLower(s) ==
  [j \in DOMAIN s |->
     IF s[j] \in Range(UpperSeq) THEN LowerSeq[IndexOf(UpperSeq, s[j])] ELSE s[j]]

\* strings.ToUpper: map 'a'..'z' to 'A'..'Z', leave the rest
ToUpper(s) ==
  [j \in DOMAIN s |->
     IF s[j] \in Range(LowerSeq) THEN UpperSeq[IndexOf(LowerSeq, s[j])] ELSE s[j]]

\* strconv.Atoi on a string shorter than 19 bytes: optional sign, then
\* decimal digits only; ok = FALSE is the syntax error
RECURSIVE AtoiDigits(_, _)
AtoiDigits(s, n) ==
  IF s = << >> THEN [ok |-> TRUE, n |-> n]
  ELSE IF Ord(Head(s)) - 48 < 0 \/ Ord(Head(s)) - 48 > 9 THEN [ok |-> FALSE, n |-> 0]
  ELSE AtoiDigits(Tail(s), n * 10 + (Ord(Head(s)) - 48))

Atoi(s) ==
  IF s = << >> THEN [ok |-> FALSE, n |-> 0]
  ELSE LET signed == Head(s) = "-" \/ Head(s) = "+"
           body == IF signed THEN Tail(s) ELSE s
           r == AtoiDigits(body, 0)
       IN IF body = << >> THEN [ok |-> FALSE, n |-> 0]
          ELSE IF ~r.ok THEN r
          ELSE IF Head(s) = "-" THEN [ok |-> TRUE, n |-> 0 - r.n]
          ELSE r

\* ------------------------------------------------------------ titleToNumber
\* variant: plain base 26, 'A' counted as 0
RECURSIVE titleLoopPlain(_, _)
titleLoopPlain(s, res) ==
  IF s = << >> THEN res
  ELSE IF Ord(Head(s)) < Ord("A") \/ Ord(Head(s)) > Ord("Z") THEN 0
  ELSE titleLoopPlain(Tail(s), res * 26 + (Ord(Head(s)) - Ord("A")))

\* variant: a character outside 'A'..'Z' is skipped
RECURSIVE titleLoopSkip(_, _)
titleLoopSkip(s, res) ==
  IF s = << >> THEN res
  ELSE IF Ord(Head(s)) < Ord("A") \/ Ord(Head(s)) > Ord("Z") THEN titleLoopSkip(Tail(s), res)
  ELSE titleLoopSkip(Tail(s), res * 26 + (Ord(Head(s)) - Ord("A") + 1))

RECURSIVE titleLoop(_, _)
titleLoop(s, res) ==
  IF s = << >> THEN res
  ELSE IF Ord(Head(s)) < Ord("A") \/ Ord(Head(s)) > Ord("Z") THEN 0
  ELSE titleLoop(Tail(s), res * 26 + (Ord(Head(s)) - Ord("A") + 1))

\* The int of the program has 64 bits and wraps around; the integers of the
\* checker have 32. Up to ExactLen letters res*26 + charValue stays below
\* 2^31 and titleLoop is exact. Longer titles are worked out by the same
\* loop on four limbs of 16 bits, least significant first, modulo 2^64.
ExactLen == 6

Limb == 65536

\* (x * 26 + d) modulo 2^64
MulAddWide(x, d) ==
  LET t1 == x[1] * 26 + d
      t2 == x[2] * 26 + (t1 \div Limb)
      t3 == x[3] * 26 + (t2 \div Limb)
      t4 == x[4] * 26 + (t3 \div Limb)
  IN <<t1 % Limb, t2 % Limb, t3 % Limb, t4 % Limb>>

RECURSIVE titleLoopWide(_, _)
titleLoopWide(s, res) ==
  IF s = << >> THEN res
  ELSE IF Ord(Head(s)) < Ord("A") \/ Ord(Head(s)) > Ord("Z") THEN <<0, 0, 0, 0>>
  ELSE titleLoopWide(Tail(s), MulAddWide(res, Ord(Head(s)) - Ord("A") + 1))

\* the signed 64-bit value of x as an integer of the checker: itself when
\* it lies in 0..2^31-1, and cut to -1 (negative) or 2^31-1 (larger), which
\* the range check against a row width cannot tell from the value itself
Narrow(x) ==
  IF x[4] >= Limb \div 2 THEN 0 - 1
  ELSE IF x[4] = 0 /\ x[3] = 0 /\ x[2] < Limb \div 2 THEN x[2] * Limb + x[1]
  ELSE 2147483647

titleToNumber(columnTitle) ==
  IF Len(columnTitle) < 1 THEN 0
  ELSE IF Len(columnTitle) <= ExactLen THEN titleLoop(columnTitle, 0)
  ELSE Narrow(titleLoopWide(columnTitle, <<0, 0, 0, 0>>))

\* variant: the range check rejects the last column (colNumber >= csvWidth)
decodeOneExclusive(raw, width) ==
  LET c == ToUpper(TrimSpace(raw)) IN
  IF c = << >> THEN [kind |-> "panic", col |-> c, colNumber |-> 0]
  ELSE LET letters == Ord(c[1]) >= Ord("A") /\ Ord(c[1]) <= Ord("Z")
           a == Atoi(c)
           n == IF letters THEN titleToNumber(c) ELSE a.n
       IN IF ~letters /\ ~a.ok THEN [kind |-> "invalid", col |-> c, colNumber |-> 0]
          ELSE IF n < 1 \/ n >= width THEN [kind |-> "range", col |-> c, colNumber |-> n]
          ELSE [kind |-> "ok", col |-> c, colNumber |-> n]

\* variant: the range check has no upper limit
decodeOneNoUpper(raw, width) ==
  LET c == ToUpper(TrimSpace(raw)) IN
  IF c = << >> THEN [kind |-> "panic", col |-> c, colNumber |-> 0]
  ELSE LET letters == Ord(c[1]) >= Ord("A") /\ Ord(c[1]) <= Ord("Z")
           a == Atoi(c)
           n == IF letters THEN titleToNumber(c) ELSE a.n
       IN IF ~letters /\ ~a.ok THEN [kind |-> "invalid", col |-> c, colNumber |-> 0]
          ELSE IF n < 1 THEN [kind |-> "range", col |-> c, colNumber |-> n]
          ELSE [kind |-> "ok", col |-> c, colNumber |-> n]

\* variant: the reference is upper-cased but not trimmed
decodeOneNoTrim(raw, width) ==
  LET c == ToUpper(raw) IN
  IF c = << >> THEN [kind |-> "panic", col |-> c, colNumber |-> 0]
  ELSE LET letters == Ord(c[1]) >= Ord("A") /\ Ord(c[1]) <= Ord("Z")
           a == Atoi(c)
           n == IF letters THEN titleToNumber(c) ELSE a.n
       IN IF ~letters /\ ~a.ok THEN [kind |-> "invalid", col |-> c, colNumber |-> 0]
          ELSE IF n < 1 \/ n > width THEN [kind |-> "range", col |-> c, colNumber |-> n]
          ELSE [kind |-> "ok", col |-> c, colNumber |-> n]

\* one iteration of the loop of decodeColNumbers over the reference raw:
\* kind is "ok" (index appended), "invalid" (Atoi failed), "range" (index
\* outside 1..csvWidth) or "panic" (col[0] on an empty string)
decodeOne(raw, width) ==
  LET c == ToUpper(TrimSpace(raw)) IN
  IF c = << >> THEN [kind |-> "panic", col |-> c, colNumber |-> 0]
  ELSE LET letters == Ord(c[1]) >= Ord("A") /\ Ord(c[1]) <= Ord("Z")
           a == Atoi(c)
           n == IF letters THEN titleToNumber(c) ELSE a.n
       IN IF ~letters /\ ~a.ok THEN [kind |-> "invalid", col |-> c, colNumber |-> 0]
          ELSE IF n < 1 \/ n > width THEN [kind |-> "range", col |-> c, colNumber |-> n]
          ELSE [kind |-> "ok", col |-> c, colNumber |-> n]

\* ------------------------------------------------------------------- state
VARIABLES
  command,                \* the cobra command that runs: "root" or "csv"
  inputFile, outputFile,  \* --input, --output
  useAdvanced,            \* --advanced
  projectID,              \* --project-id
  credentials,            \* --credentials
  sourceLang, targetLang, \* --source, --target
  csvColumn,              \* --column: the raw column references
  fs,                     \* the file system: path -> file
  env,                    \* GOOGLE_APPLICATION_CREDENTIALS of the process
  pc,                     \* position of the running command
  csv,                    \* RunE: the table read from the input file
  csvWidth,               \* decodeColNumbers: parameter csvWidth
  k,                      \* decodeColNumbers: position in csvColumn
  col, colNumber,         \* decodeColNumbers: locals of the last iteration
  colNumbers,             \* decodeColNumbers: the indices decoded so far
  i,                      \* RunE: position in csv
  calls,                  \* one record per translation call made
  txtInp, txtOut,         \* rootCmd.RunE: strInp (the text read), strOut
  err,                    \* the error the command returned, NoErr for nil
  fault,                  \* the expression a run-time panic came from, or ""
  status,                 \* the exit status of the process, << >> while it runs
  ipc,                    \* indicator: "idle" (not started), "select", "returned"
  tickerC,                \* indicator: ticks waiting in ticker.C (capacity 1)
  elapsed,                \* seconds the ticker has counted
  shutdownCh,             \* TRUE once the shutdown channel has been signalled
  stdout                  \* what has been printed to the standard output

cfgVars ==
  <<command, inputFile, outputFile, useAdvanced, projectID, credentials, sourceLang,
    targetLang, csvColumn>>

decVars == <<csvWidth, k, col, colNumber, colNumbers>>

rootVars == <<txtInp, txtOut>>

indVars == <<ipc, tickerC, elapsed, shutdownCh, stdout>>

\* the state of the translation pipeline
pipeVars == <<cfgVars, fs, env, pc, csv, decVars, i, calls, rootVars, err, fault, status>>

vars == <<pipeVars, indVars>>

\* a file is its rows written as a CSV table; NoFile is a path with no file
NoFile == [exists |-> FALSE, rows |-> << >>]

File(rows) == [exists |-> TRUE, rows |-> rows]

Paths == {"in.csv", "out.csv"}

\* what a file at the output path holds before the run, when there is one
OldFile == File(<<<<[src |-> <<0, 0>>, tr |-> 0]>>>>)

\* the value of a string variable nothing has been read into
NoText == [src |-> <<0, 0>>, tr |-> 0]

ValidLangs == {"en", "es"}

\* the field of the input file at row r, column c; tr counts translations
Cell(r, c) == [src |-> <<r, c>>, tr |-> 0]

Table(rows, width) == [r \in 1..rows |-> [c \in 1..width |-> Cell(r, c)]]

\* a file whose last record is one field short
Ragged(rows, width) ==
  [r \in 1..rows |-> [c \in 1..(IF r = rows THEN width - 1 ELSE width) |-> Cell(r, c)]]

\* what the upstream service makes of one string, and what it returns in a
\* position beyond the request
Tr(x) == [x EXCEPT !.tr = @ + 1]

Filler == [src |-> <<0, 0>>, tr |-> 1]

\* the occurrence of strInp[j] that position j is: 1 for the first
Occurrence(strInp, j) == Cardinality({m \in 1..j : strInp[m] = strInp[j]})

\* the upstream's answer of n translations to the request strInp; a string
\* repeated in the request gets an answer of its own at each position, so
\* that the answers of different positions can be told apart
Response(strInp, n) ==
  [j \in 1..n |->
     IF j <= Len(strInp) THEN [strInp[j] EXCEPT !.tr = @ + Occurrence(strInp, j)]
     ELSE Filler]

\* what the environment does to one translation call: client creation
\* fails, the call fails, or n translations come back
Upstream(strInp) ==
  {[client |-> FALSE, fail |-> FALSE, n |-> 0],
   [client |-> TRUE, fail |-> TRUE, n |-> 0]}
  \cup {[client |-> TRUE, fail |-> FALSE, n |-> n] : n \in 0..(Len(strInp) + MaxExtra)}

\* an error: its message layers, outermost first, and the token it prints
NoErr == [msg |-> << >>, tok |-> << >>]

Err(layers) == [msg |-> layers, tok |-> << >>]

\* fmt.Errorf("msg: %v", e)
Wrap(msg, e) == [e EXCEPT !.msg = <<msg>> \o @]

\* ----------------------------------------------------------- translateBasic
\* env is set first when credentials are given; the result is out, err
translateBasic(strInp, up) ==
  IF ~up.client THEN [out |-> << >>, err |-> Err(<<"failed to create client", "client">>)]
  ELSE IF targetLang \notin ValidLangs
    THEN [out |-> << >>, err |-> Err(<<"invalid target language code", "parse">>)]
  ELSE IF sourceLang = "auto" THEN
    IF up.fail THEN [out |-> << >>, err |-> Err(<<"failed to translate text", "upstream">>)]
    ELSE IF up.n = 0 THEN [out |-> << >>, err |-> Err(<<"no translation returned">>)]
    ELSE [out |-> Response(strInp, up.n), err |-> NoErr]
  ELSE IF sourceLang \notin ValidLangs
    THEN [out |-> << >>, err |-> Err(<<"invalid source language code", "parse">>)]
  \* the call's error is assigned to the err declared inside the else block
  ELSE IF up.fail \/ up.n = 0 THEN [out |-> << >>, err |-> Err(<<"no translation returned">>)]
  ELSE [out |-> Response(strInp, up.n), err |-> NoErr]

\* -------------------------------------------------------- translateAdvanced
\* variant: an empty answer of the service is returned as a success
translateAdvancedNoZeroCheck(strInp, up) ==
  IF projectID = ""
    THEN [out |-> << >>, err |-> Err(<<"project ID is required for Advanced API">>)]
  ELSE IF ~up.client THEN [out |-> << >>, err |-> Err(<<"failed to create client", "client">>)]
  ELSE IF up.fail THEN [out |-> << >>, err |-> Err(<<"failed to translate text", "upstream">>)]
  ELSE [out |-> Response(strInp, up.n), err |-> NoErr]

translateAdvanced(strInp, up) ==
  IF projectID = ""
    THEN [out |-> << >>, err |-> Err(<<"project ID is required for Advanced API">>)]
  ELSE IF ~up.client THEN [out |-> << >>, err |-> Err(<<"failed to create client", "client">>)]
  ELSE IF up.fail THEN [out |-> << >>, err |-> Err(<<"failed to translate text", "upstream">>)]
  ELSE IF up.n = 0 THEN [out |-> << >>, err |-> Err(<<"no translation returned">>)]
  ELSE [out |-> Response(strInp, up.n), err |-> NoErr]

\* ------------------------------------------------------------- translateEx
\* variant: the advanced flag selects the basic API
translateExSwapped(strInp, advanced, up) ==
  LET r == IF advanced THEN translateBasic(strInp, up) ELSE translateAdvanced(strInp, up)
  IN IF r.err # NoErr THEN [out |-> r.out, err |-> Wrap("failed to translate text", r.err)]
     ELSE r

translateEx(strInp, advanced, up) ==
  LET r == IF advanced THEN translateAdvanced(strInp, up) ELSE translateBasic(strInp, up)
  IN IF r.err # NoErr THEN [out |-> r.out, err |-> Wrap("failed to translate text", r.err)]
     ELSE r

\* os.Setenv in translateBasic and translateAdvanced
envAfter(advanced) ==
  IF advanced /\ projectID = "" THEN env
  ELSE IF credentials # "" THEN credentials
  ELSE env

\* ------------------------------------------------------------- csvCmd.RunE
\* variant: no whole-row case, an empty index list selects no field
BatchNoWholeRow(row, idx) == [j \in 1..Len(idx) |-> row[idx[j]]]

\* the batch of a row: the whole row, or the referenced fields in list order
Batch(row, idx) ==
  IF Len(idx) = 0 THEN row ELSE [j \in 1..Len(idx) |-> row[idx[j]]]

\* variant: value k is written to field k of the row
RECURSIVE WriteBackSequential(_, _, _, _)
WriteBackSequential(row, strOut, idx, j) ==
  IF j > Len(strOut) \/ j > Len(idx) THEN row
  ELSE WriteBackSequential([row EXCEPT ![j] = strOut[j]], strOut, idx, j + 1)

\* variant: a field keeps the first value written to it
RECURSIVE WriteBackFirstWins(_, _, _, _)
WriteBackFirstWins(row, strOut, idx, j) ==
  IF j > Len(strOut) \/ j > Len(idx) THEN row
  ELSE [WriteBackFirstWins(row, strOut, idx, j + 1) EXCEPT ![idx[j]] = strOut[j]]

\* for k, v := range strOut { row[colNumbers[k]-1] = v }, from position j on
RECURSIVE WriteBack(_, _, _, _)
WriteBack(row, strOut, idx, j) ==
  IF j > Len(strOut) \/ j > Len(idx) THEN row
  ELSE WriteBack([row EXCEPT ![idx[j]] = strOut[j]], strOut, idx, j + 1)

\* csv.Reader.ReadAll with FieldsPerRecord = 0: every record has as many
\* fields as the first one, or the read fails
Uniform(rows) == \A r \in DOMAIN rows : Len(rows[r]) = Len(rows[1])

\* variant: records of any number of fields are read
CsvReadRagged ==
  /\ pc = "start"
  /\ IF inputFile = outputFile
       THEN /\ pc' = "failed"
            /\ err' = Err(<<"input file and output file are the same">>)
            /\ UNCHANGED <<csv, decVars, fault>>
       ELSE \E ok \in BOOLEAN :
              IF ~ok \/ ~fs[inputFile].exists
                THEN /\ pc' = "failed"
                     /\ err' = Err(<<"failed to read CSV file", "io">>)
                     /\ UNCHANGED <<csv, decVars, fault>>
                ELSE /\ csv' = fs[inputFile].rows
                     /\ err' = err
                     /\ IF Len(fs[inputFile].rows) = 0
                          THEN pc' = "panic" /\ fault' = "csv[0]" /\ UNCHANGED decVars
                          ELSE /\ pc' = "decode"
                               /\ fault' = fault
                               /\ csvWidth' = Len(fs[inputFile].rows[1])
                               /\ k' = 1
                               /\ colNumbers' = << >>
                               /\ UNCHANGED <<col, colNumber>>
  /\ UNCHANGED <<indVars, cfgVars, status, fs, env, i, calls, rootVars>>

\* variant: the paths are not compared before the input is read
CsvReadNoPathCheck ==
  /\ pc = "start"
  /\ \E ok \in BOOLEAN :
              IF ~ok \/ ~fs[inputFile].exists \/ ~Uniform(fs[inputFile].rows)
                THEN /\ pc' = "failed"
                     /\ err' = Err(<<"failed to read CSV file", "io">>)
                     /\ UNCHANGED <<csv, decVars, fault>>
                ELSE /\ csv' = fs[inputFile].rows
                     /\ err' = err
                     /\ IF Len(fs[inputFile].rows) = 0
                          THEN pc' = "panic" /\ fault' = "csv[0]" /\ UNCHANGED decVars
                          ELSE /\ pc' = "decode"
                               /\ fault' = fault
                               /\ csvWidth' = Len(fs[inputFile].rows[1])
                               /\ k' = 1
                               /\ colNumbers' = << >>
                               /\ UNCHANGED <<col, colNumber>>
  /\ UNCHANGED <<indVars, cfgVars, status, fs, env, i, calls, rootVars>>

\* the path check, readCSVToSlice and len(csv[0])
CsvRead ==
  /\ pc = "start"
  /\ IF inputFile = outputFile
       THEN /\ pc' = "failed"
            /\ err' = Err(<<"input file and output file are the same">>)
            /\ UNCHANGED <<csv, decVars, fault>>
       ELSE \E ok \in BOOLEAN :
              IF ~ok \/ ~fs[inputFile].exists \/ ~Uniform(fs[inputFile].rows)
                THEN /\ pc' = "failed"
                     /\ err' = Err(<<"failed to read CSV file", "io">>)
                     /\ UNCHANGED <<csv, decVars, fault>>
                ELSE /\ csv' = fs[inputFile].rows
                     /\ err' = err
                     /\ IF Len(fs[inputFile].rows) = 0
                          THEN pc' = "panic" /\ fault' = "csv[0]" /\ UNCHANGED decVars
                          ELSE /\ pc' = "decode"
                               /\ fault' = fault
                               /\ csvWidth' = Len(fs[inputFile].rows[1])
                               /\ k' = 1
                               /\ colNumbers' = << >>
                               /\ UNCHANGED <<col, colNumber>>
  /\ UNCHANGED <<indVars, cfgVars, status, fs, env, i, calls, rootVars>>

\* variant: a decoded index is put in front of the ones decoded before
DecodeIterPrepend ==
  /\ pc = "decode"
  /\ k <= Len(csvColumn)
  /\ LET r == decodeOne(csvColumn[k], csvWidth) IN
       /\ col' = r.col
       /\ colNumber' = r.colNumber
       /\ CASE r.kind = "ok" ->
                 /\ colNumbers' = <<r.colNumber>> \o colNumbers
                 /\ k' = k + 1
                 /\ UNCHANGED <<pc, err, fault>>
            [] r.kind = "invalid" ->
                 /\ colNumbers' = << >>
                 /\ pc' = "failed"
                 /\ err' = [msg |-> <<"invalid column number">>, tok |-> r.col]
                 /\ k' = k
                 /\ fault' = fault
            [] r.kind = "range" ->
                 /\ colNumbers' = << >>
                 /\ pc' = "failed"
                 /\ err' = [msg |-> <<"column number is out of range">>, tok |-> r.col]
                 /\ k' = k
                 /\ fault' = fault
            [] OTHER ->
                 /\ pc' = "panic"
                 /\ fault' = "col[0]"
                 /\ UNCHANGED <<colNumbers, k, err>>
  /\ UNCHANGED <<indVars, cfgVars, status, fs, env, csv, csvWidth, i, calls, rootVars>>

\* decodeColNumbers: one iteration of the loop over csvColumn
DecodeIter ==
  /\ pc = "decode"
  /\ k <= Len(csvColumn)
  /\ LET r == decodeOne(csvColumn[k], csvWidth) IN
       /\ col' = r.col
       /\ colNumber' = r.colNumber
       /\ CASE r.kind = "ok" ->
                 /\ colNumbers' = Append(colNumbers, r.colNumber)
                 /\ k' = k + 1
                 /\ UNCHANGED <<pc, err, fault>>
            [] r.kind = "invalid" ->
                 /\ colNumbers' = << >>
                 /\ pc' = "failed"
                 /\ err' = [msg |-> <<"invalid column number">>, tok |-> r.col]
                 /\ k' = k
                 /\ fault' = fault
            [] r.kind = "range" ->
                 /\ colNumbers' = << >>
                 /\ pc' = "failed"
                 /\ err' = [msg |-> <<"column number is out of range">>, tok |-> r.col]
                 /\ k' = k
                 /\ fault' = fault
            [] OTHER ->
                 /\ pc' = "panic"
                 /\ fault' = "col[0]"
                 /\ UNCHANGED <<colNumbers, k, err>>
  /\ UNCHANGED <<indVars, cfgVars, status, fs, env, csv, csvWidth, i, calls, rootVars>>

\* variant: an empty list of references is refused
DecodeReturnEmptyFails ==
  /\ pc = "decode"
  /\ k > Len(csvColumn)
  /\ IF csvColumn = << >>
       THEN /\ pc' = "failed"
            /\ err' = [msg |-> <<"invalid column number">>, tok |-> << >>]
            /\ i' = i
       ELSE /\ pc' = "rows"
            /\ i' = 1
            /\ err' = err
  /\ UNCHANGED <<indVars, cfgVars, status, fs, env, csv, decVars, calls, rootVars, fault>>

\* variant: the loop over the rows starts at the second row
DecodeReturnSkipFirst ==
  /\ pc = "decode"
  /\ k > Len(csvColumn)
  /\ pc' = "rows"
  /\ i' = 2
  /\ UNCHANGED <<indVars, cfgVars, status, fs, env, csv, decVars, calls, rootVars, err, fault>>

\* decodeColNumbers: the loop is over, the indices are returned
DecodeReturn ==
  /\ pc = "decode"
  /\ k > Len(csvColumn)
  /\ pc' = "rows"
  /\ i' = 1
  /\ UNCHANGED <<indVars, cfgVars, status, fs, env, csv, decVars, calls, rootVars, err, fault>>

\* variant: a row whose translation failed is left as it was and skipped
CsvRowSkipOnError ==
  /\ pc = "rows"
  /\ i <= Len(csv)
  /\ \E up \in Upstream(Batch(csv[i], colNumbers)) :
       LET batch == Batch(csv[i], colNumbers)
           r == translateEx(batch, useAdvanced, up) IN
         /\ env' = envAfter(useAdvanced)
         /\ calls' = Append(calls, [row |-> i, strInp |-> batch, up |-> up,
                                    strOut |-> r.out, err |-> r.err])
         /\ csv' = IF r.err # NoErr THEN csv
                   ELSE IF Len(colNumbers) = 0 THEN [csv EXCEPT ![i] = r.out]
                   ELSE [csv EXCEPT ![i] = WriteBack(csv[i], r.out, colNumbers, 1)]
         /\ i' = i + 1
  /\ UNCHANGED <<indVars, cfgVars, status, fs, decVars, rootVars, pc, err, fault>>

\* one iteration of the loop over the rows
CsvRow ==
  /\ pc = "rows"
  /\ i <= Len(csv)
  /\ LET row == csv[i]
         nCols == Len(colNumbers) IN
     IF \E j \in 1..nCols : colNumbers[j] > Len(row)
       THEN pc' = "panic" /\ fault' = "row[v-1]" /\ UNCHANGED <<env, csv, i, calls, err>>
       ELSE \E up \in Upstream(Batch(row, colNumbers)) :
              LET batch == Batch(row, colNumbers)
                  r == translateEx(batch, useAdvanced, up) IN
                /\ env' = envAfter(useAdvanced)
                /\ calls' = Append(calls, [row |-> i, strInp |-> batch, up |-> up,
                                           strOut |-> r.out, err |-> r.err])
                /\ IF r.err # NoErr
                     THEN /\ pc' = "failed"
                          /\ err' = Wrap("failed to translate text", r.err)
                          /\ UNCHANGED <<csv, i, fault>>
                     ELSE IF nCols = 0
                       THEN /\ csv' = [csv EXCEPT ![i] = r.out]
                            /\ i' = i + 1
                            /\ UNCHANGED <<pc, err, fault>>
                       ELSE /\ csv' = [csv EXCEPT ![i] = WriteBack(row, r.out, colNumbers, 1)]
                            /\ IF Len(r.out) > nCols
                                 THEN pc' = "panic" /\ fault' = "colNumbers[k]" /\ i' = i
                                 ELSE pc' = pc /\ fault' = fault /\ i' = i + 1
                            /\ err' = err
  /\ UNCHANGED <<indVars, cfgVars, status, fs, decVars, rootVars>>

\* variant: the first row is taken for a header and not written
CsvWriteSkipHeader ==
  /\ pc = "rows"
  /\ i > Len(csv)
  /\ fs' = [fs EXCEPT ![outputFile] = File(IF csv = << >> THEN csv ELSE Tail(csv))]
  /\ pc' = "done"
  /\ UNCHANGED <<indVars, cfgVars, status, env, csv, decVars, i, calls, rootVars, err, fault>>

\* writeSliceToCSV after the last row
CsvWrite ==
  /\ pc = "rows"
  /\ i > Len(csv)
  /\ \E w \in {"ok", "create", "write"} :
       CASE w = "ok" ->
              /\ fs' = [fs EXCEPT ![outputFile] = File(csv)]
              /\ pc' = "done"
              /\ err' = err
         [] w = "create" ->
              /\ fs' = fs
              /\ pc' = "failed"
              /\ err' = Err(<<"error creating file", "io">>)
         [] OTHER ->
              /\ \E p \in 0..(Len(csv) - 1) : fs' = [fs EXCEPT ![outputFile] = File(SubSeq(csv, 1, p))]
              /\ pc' = "failed"
              /\ err' = Err(<<"error writing data", "io">>)
  /\ UNCHANGED <<indVars, cfgVars, status, env, csv, decVars, i, calls, rootVars, fault>>

\* ------------------------------------------------- the csv command, started
RECURSIVE SeqsUpTo(_, _)
SeqsUpTo(S, n) ==
  IF n = 0 THEN {<< >>}
  ELSE LET shorter == SeqsUpTo(S, n - 1)
       IN shorter \cup {Append(s, x) : s \in {t \in shorter : Len(t) = n - 1}, x \in S}

\* references tried alone, and references tried in lists
RefTokens ==
  {<<"1">>, <<"2">>, <<"3">>, <<"b">>, <<" ", "C", " ">>, << >>, <<" ">>,
   <<"1", "A">>, <<"A", "1">>, <<"+", "2">>, <<"0">>, <<"E">>}

ListTokens == {<<"1">>, <<"B">>, <<"9">>}

ColumnLists ==
  {<<t>> : t \in RefTokens} \cup SeqsUpTo(ListTokens, MaxRefs)

InitCommon ==
  /\ inputFile = "in.csv"
  /\ env = ""
  /\ csv = << >>
  /\ col = << >>
  /\ colNumber = 0
  /\ colNumbers = << >>
  /\ i = 0
  /\ calls = << >>
  /\ txtInp = NoText
  /\ txtOut = << >>
  /\ err = NoErr
  /\ fault = ""
  /\ status = << >>
  /\ ipc = "idle"
  /\ tickerC = 0
  /\ elapsed = 0
  /\ shutdownCh = FALSE
  /\ stdout = << >>

Init ==
  /\ InitCommon
  /\ command = "csv"
  /\ outputFile \in Paths
  /\ useAdvanced \in BOOLEAN
  /\ projectID \in {"", "proj"}
  /\ credentials \in {"", "cred.json"}
  /\ sourceLang \in {"auto", "en"}
  /\ targetLang \in {"es", "??"}
  /\ csvColumn \in ColumnLists
  /\ \E rows \in 0..MaxRows, width \in 1..MaxCols, old \in {NoFile, OldFile},
        table \in {"uniform", "ragged"} :
       /\ table = "ragged" => rows > 1 /\ width > 1
       /\ fs = [p \in Paths |->
                  IF p # inputFile THEN old
                  ELSE IF table = "ragged" THEN File(Ragged(rows, width))
                  ELSE File(Table(rows, width))]
  /\ pc = "start"
  /\ csvWidth = 0
  /\ k = 0

Next == CsvRead \/ DecodeIter \/ DecodeReturn \/ CsvRow \/ CsvWrite

Spec == Init /\ [][Next]_vars

\* ------------------------------------------------------- the root command
\* A text file holds the strings written to it, in order; the input file
\* holds one string, its whole content.
Texts == {Cell(1, 1), Cell(1, 2)}

\* what a text file at the output path holds before the run, when there is one
OldText == File(<<NoText>>)

\* what WriteString appends after a string in the newline variant
Newline == [src |-> <<0, 0>>, tr |-> 2]

\* the required flag --target was not given: cobra returns an error and
\* RunE is not entered ("" stands for a flag that is absent)
RootRequired ==
  /\ pc = "start"
  /\ targetLang = ""
  /\ pc' = "failed"
  /\ err' = [msg |-> <<"required flag(s) not set">>, tok |-> <<"t", "a", "r", "g", "e", "t">>]
  /\ UNCHANGED <<indVars, cfgVars, status, fs, env, csv, decVars, i, calls, rootVars, fault>>

\* rootCmd.RunE: readInp
RootRead ==
  /\ pc = "start"
  /\ targetLang # ""
  /\ \E ok \in BOOLEAN :
       IF ~ok \/ ~fs[inputFile].exists
         THEN /\ pc' = "failed"
              /\ err' = Err(<<"failed to read input file", "failed to read input file", "io">>)
              /\ txtInp' = txtInp
         ELSE /\ txtInp' = fs[inputFile].rows[1]
              /\ pc' = "translate"
              /\ err' = err
  /\ UNCHANGED <<indVars, cfgVars, status, fs, env, csv, decVars, i, calls, txtOut, fault>>

\* rootCmd.RunE: the translation of the one-element batch
RootTranslate ==
  /\ pc = "translate"
  /\ \E up \in Upstream(<<txtInp>>) :
       LET batch == <<txtInp>>
           r == IF useAdvanced THEN translateAdvanced(batch, up)
                ELSE translateBasic(batch, up) IN
         /\ env' = envAfter(useAdvanced)
         /\ calls' = Append(calls, [row |-> 0, strInp |-> batch, up |-> up,
                                    strOut |-> r.out, err |-> r.err])
         /\ txtOut' = r.out
         /\ IF r.err # NoErr
              THEN /\ pc' = "failed"
                   /\ err' = Wrap("failed to translate text", r.err)
              ELSE /\ pc' = "write"
                   /\ err' = err
  /\ UNCHANGED <<indVars, cfgVars, status, fs, csv, decVars, i, txtInp, fault>>

\* variant: every string is written with a line end after it
RootWriteNewline ==
  /\ pc = "write"
  /\ \E w \in {"ok", "mkdir", "create", "write"} :
       CASE w = "ok" ->
              /\ fs' = [fs EXCEPT ![outputFile] =
                          File([j \in 1..(2 * Len(txtOut)) |->
                                  IF j % 2 = 1 THEN txtOut[(j + 1) \div 2] ELSE Newline])]
              /\ pc' = "done"
              /\ err' = err
         [] w = "mkdir" ->
              /\ fs' = fs
              /\ pc' = "failed"
              /\ err' = Err(<<"failed to create output directory", "io">>)
         [] w = "create" ->
              /\ fs' = fs
              /\ pc' = "failed"
              /\ err' = Err(<<"failed to create output file", "io">>)
         [] OTHER ->
              /\ \E p \in 0..(Len(txtOut) - 1) :
                   fs' = [fs EXCEPT ![outputFile] = File(SubSeq(txtOut, 1, p))]
              /\ pc' = "failed"
              /\ err' = Err(<<"failed to write to output file", "io">>)
  /\ UNCHANGED <<indVars, cfgVars, status, env, csv, decVars, i, calls, rootVars, fault>>

\* rootCmd.RunE: os.MkdirAll and writeOut
RootWrite ==
  /\ pc = "write"
  /\ \E w \in {"ok", "mkdir", "create", "write"} :
       CASE w = "ok" ->
              /\ fs' = [fs EXCEPT ![outputFile] = File(txtOut)]
              /\ pc' = "done"
              /\ err' = err
         [] w = "mkdir" ->
              /\ fs' = fs
              /\ pc' = "failed"
              /\ err' = Err(<<"failed to create output directory", "io">>)
         [] w = "create" ->
              /\ fs' = fs
              /\ pc' = "failed"
              /\ err' = Err(<<"failed to create output file", "io">>)
         [] OTHER ->
              /\ \E p \in 0..(Len(txtOut) - 1) :
                   fs' = [fs EXCEPT ![outputFile] = File(SubSeq(txtOut, 1, p))]
              /\ pc' = "failed"
              /\ err' = Err(<<"failed to write to output file", "io">>)
  /\ UNCHANGED <<indVars, cfgVars, status, env, csv, decVars, i, calls, rootVars, fault>>

InitRoot ==
  /\ InitCommon
  /\ command = "root"
  /\ outputFile \in Paths
  /\ useAdvanced \in BOOLEAN
  /\ projectID \in {"", "proj"}
  /\ credentials \in {"", "cred.json"}
  /\ sourceLang \in {"auto", "en"}
  /\ targetLang \in {"es", "??", ""}
  /\ csvColumn = << >>
  /\ \E text \in Texts, old \in {NoFile, OldText} :
       fs = [p \in Paths |-> IF p = inputFile THEN File(<<text>>) ELSE old]
  /\ pc = "start"
  /\ csvWidth = 0
  /\ k = 0

NextRoot == RootRequired \/ RootRead \/ RootTranslate \/ RootWrite

SpecRoot == InitRoot /\ [][NextRoot]_vars

\* ---------------------------------------------------------- the indicator
\* the task is started: time.NewTicker(time.Second)
IndicatorStart ==
  /\ ipc = "idle"
  /\ ipc' = "select"
  /\ UNCHANGED <<pipeVars, tickerC, elapsed, shutdownCh, stdout>>

\* a second passes: the ticker puts a tick in its channel, or drops it when
\* the last one has not been taken; a stopped ticker sends nothing
Tick ==
  /\ ipc = "select"
  /\ elapsed < MaxTicks
  /\ elapsed' = elapsed + 1
  /\ tickerC' = 1
  /\ UNCHANGED <<pipeVars, ipc, shutdownCh, stdout>>

\* the owner of the channel signals the shutdown
Signal ==
  /\ ~shutdownCh
  /\ shutdownCh' = TRUE
  /\ UNCHANGED <<pipeVars, ipc, tickerC, elapsed, stdout>>

\* variant: a tick prints two markers
IndicatorPrintTwice ==
  /\ ipc = "select"
  /\ tickerC = 1
  /\ tickerC' = 0
  /\ stdout' = stdout \o <<".", ".">>
  /\ UNCHANGED <<pipeVars, ipc, elapsed, shutdownCh>>

\* select: case <-ticker.C
IndicatorPrint ==
  /\ ipc = "select"
  /\ tickerC = 1
  /\ tickerC' = 0
  /\ stdout' = Append(stdout, ".")
  /\ UNCHANGED <<pipeVars, ipc, elapsed, shutdownCh>>

\* select: case <-shutdownCh, and the deferred ticker.Stop
IndicatorReturn ==
  /\ ipc = "select"
  /\ shutdownCh
  /\ ipc' = "returned"
  /\ UNCHANGED <<pipeVars, tickerC, elapsed, shutdownCh, stdout>>

NextIndicator ==
  NextRoot \/ IndicatorStart \/ Tick \/ Signal \/ IndicatorPrint \/ IndicatorReturn

\* select chooses at random among the cases that are ready, so a case that
\* stays ready is chosen in the end
SpecIndicator == InitRoot /\ [][NextIndicator]_vars /\ WF_vars(IndicatorReturn)

\* ------------------------------------------------------- the whole process
\* variant: the process exits with status 0 whatever the command returned
ExitZero ==
  /\ pc \in {"done", "failed", "panic"}
  /\ status = << >>
  /\ status' = <<0>>
  /\ UNCHANGED <<indVars, cfgVars, fs, env, pc, csv, decVars, i, calls, rootVars, err, fault>>

\* Execute: os.Exit(1) when the command returned an error, a return from
\* main otherwise; a run-time panic ends the process with status 2
Exit ==
  /\ pc \in {"done", "failed", "panic"}
  /\ status = << >>
  /\ status' = IF fault # "" THEN <<2>> ELSE IF err # NoErr THEN <<1>> ELSE <<0>>
  /\ UNCHANGED <<indVars, cfgVars, fs, env, pc, csv, decVars, i, calls, rootVars, err, fault>>

InitCmd == Init \/ InitRoot

NextCmd ==
  \/ command = "csv" /\ Next
  \/ command = "root" /\ NextRoot
  \/ Exit

SpecCmd == InitCmd /\ [][NextCmd]_vars

\* ------------------------------------- decodeColNumbers, called on its own
Alphabet == {" ", "+", "-", "0", "1", "2", "A", "Z", "a"}

\* strconv.Itoa of a natural number
RECURSIVE Itoa(_)
Itoa(n) ==
  IF n < 10 THEN <<DigitSeq[n + 1]>> ELSE Itoa(n \div 10) \o <<DigitSeq[(n % 10) + 1]>>

Letters == Range(UpperSeq) \cup Range(LowerSeq)

\* decimal references around the row width, and letter references
BigTokens ==
  {Itoa(n) : n \in 0..(MaxBigWidth + 1)}
  \cup {<<"-">> \o Itoa(n) : n \in 0..(MaxBigWidth + 1)}
  \cup {<<c>> : c \in Letters}
  \cup {<<"A", c>> : c \in Letters}
  \cup {<<"B", "A">>, <<"Z", "Z">>, <<"z", "z">>, <<"A", "A", "A">>}

InitDecode ==
  /\ InitCommon
  /\ command = "csv"
  /\ outputFile = "out.csv"
  /\ useAdvanced = FALSE
  /\ projectID = ""
  /\ credentials = ""
  /\ sourceLang = "auto"
  /\ targetLang = "es"
  /\ \/ /\ csvColumn \in {<<t>> : t \in SeqsUpTo(Alphabet, MaxTokLen)} \cup ColumnLists
        /\ csvWidth \in 1..MaxWidth
     \/ /\ csvColumn \in {<<t>> : t \in BigTokens}
        /\ csvWidth \in 1..MaxBigWidth
  /\ fs = [p \in Paths |-> NoFile]
  /\ pc = "decode"
  /\ k = 1

NextDecode == DecodeIter \/ DecodeReturn

SpecDecode == InitDecode /\ [][NextDecode]_vars

\* letter references of the value 2^64 + 1, 2^64 + 2, 2^64 + 28, 2^64 - 3,
\* 2^63 + 5, fourteen times Z, and seven times A
WideTokens ==
  {<<"G", "K", "G", "W", "B", "Y", "L", "W", "R", "X", "T", "L", "P", "Q">>,
   <<"G", "K", "G", "W", "B", "Y", "L", "W", "R", "X", "T", "L", "P", "R">>,
   <<"G", "K", "G", "W", "B", "Y", "L", "W", "R", "X", "T", "L", "Q", "R">>,
   <<"G", "K", "G", "W", "B", "Y", "L", "W", "R", "X", "T", "L", "P", "M">>,
   <<"C", "R", "P", "X", "N", "L", "S", "K", "V", "L", "J", "F", "H", "M">>,
   <<"Z", "Z", "Z", "Z", "Z", "Z", "Z", "Z", "Z", "Z", "Z", "Z", "Z", "Z">>,
   <<"A", "A", "A", "A", "A", "A", "A">>}

InitWide ==
  /\ InitCommon
  /\ command = "csv"
  /\ outputFile = "out.csv"
  /\ useAdvanced = FALSE
  /\ projectID = ""
  /\ credentials = ""
  /\ sourceLang = "auto"
  /\ targetLang = "es"
  /\ csvColumn \in {<<t>> : t \in WideTokens} \cup {<<ToLower(t)>> : t \in WideTokens}
  /\ csvWidth \in 1..MaxBigWidth
  /\ fs = [p \in Paths |-> NoFile]
  /\ pc = "decode"
  /\ k = 1

SpecWide == InitWide /\ [][NextDecode]_vars

\* ----------------------------------------------------- reference semantics
\* used by the properties only: the column a reference denotes, worked out
\* digit by digit from its written form

RECURSIVE Pow(_, _)
Pow(b, e) == IF e = 0 THEN 1 ELSE b * Pow(b, e - 1)

RECURSIVE SumTo(_, _)
SumTo(f, n) == IF n = 0 THEN 0 ELSE f[n] + SumTo(f, n - 1)

AllLetters(s) == s # << >> /\ \A j \in DOMAIN s : s[j] \in Range(UpperSeq)

\* bijective base 26 as a positional sum
Bij26(s) ==
  SumTo([j \in 1..Len(s) |-> IndexOf(UpperSeq, s[j]) * Pow(26, Len(s) - j)], Len(s))

\* the reference is the decimal string of the integer n
IsDecimalOf(s, n) ==
  IF n < 0 THEN s = <<"-">> \o Itoa(0 - n) ELSE s = Itoa(n)

\* base-10 integer syntax: an optional sign, then one digit or more
IntSyntax(s) ==
  LET body == IF s # << >> /\ s[1] \in {"+", "-"} THEN Tail(s) ELSE s
  IN body # << >> /\ \A j \in DOMAIN body : body[j] \in Range(DigitSeq)

Norm(s) == ToUpper(TrimSpace(s))

ErrInvalid == <<"invalid column number">>

ErrRange == <<"column number is out of range">>

\* decodeColNumbers stopped at reference j without returning indices
DecodeStoppedAt(j) == k = j /\ pc \in {"failed", "panic"} /\ j \in 1..Len(csvColumn)

\* reference j has been decoded and its index appended
DecodedOk(j) == j \in 1..Len(csvColumn) /\ j < k /\ j <= Len(colNumbers)

\* the reference the last finished iteration worked on
LastRef == IF pc \in {"failed", "panic"} THEN k ELSE k - 1

\* C1: titleToNumber decodes letters as bijective base 26: the i-th letter
\* alone gives i, "AA" 27, "AZ" 52, "BA" 53, "ZZ" 702, and any letter
\* sequence the positional sum of its letter values.
C1_TitleValues ==
  /\ \A n \in 1..26 : col = <<UpperSeq[n]>> => colNumber = n
  /\ col = <<"A", "A">> => colNumber = 27
  /\ col = <<"A", "Z">> => colNumber = 52
  /\ col = <<"B", "A">> => colNumber = 53
  /\ col = <<"Z", "Z">> => colNumber = 702
  /\ AllLetters(col) => colNumber = Bij26(col)

C1_Witness == col = <<"Z", "Z">> /\ colNumber = 702 /\ pc = "failed"

\* C2: for every width w and every i in 1..w, the decimal string of i is
\* decoded without failure to the index i.
C2_DecimalInRange ==
  \A j \in 1..Len(csvColumn) : \A n \in 1..csvWidth :
    csvColumn[j] = Itoa(n) =>
      /\ ~DecodeStoppedAt(j)
      /\ DecodedOk(j) => colNumbers[j] = n

C2_Witness ==
  /\ csvColumn = <<Itoa(12)>>
  /\ csvWidth = 12
  /\ pc = "rows"
  /\ colNumbers = <<12>>

\* C3: a decimal or letter reference that denotes a column below 1 or above
\* the width stops the decoder with the out-of-range error, and every index
\* the decoder holds lies in 1..csvWidth.
C3_OutOfRangeFails ==
  /\ \A j \in DOMAIN colNumbers : colNumbers[j] >= 1 /\ colNumbers[j] <= csvWidth
  /\ \A j \in 1..Len(csvColumn) :
       LET c == Norm(csvColumn[j])
           outside ==
             \/ AllLetters(c) /\ Bij26(c) > csvWidth
             \/ \E n \in (0 - MaxBigWidth - 1)..(MaxBigWidth + 1) :
                  IsDecimalOf(c, n) /\ (n < 1 \/ n > csvWidth)
       IN outside =>
            /\ ~DecodedOk(j)
            /\ (k = j /\ pc # "decode") =>
                 pc = "failed" /\ err.msg = ErrRange /\ colNumbers = << >>

C3_Witness ==
  /\ csvColumn = <<<<"A", "a">>>>
  /\ csvWidth = 26
  /\ pc = "failed"
  /\ err.msg = ErrRange

\* C4: a reference that is empty after trimming makes decodeColNumbers
\* return a column-reference error and no indices, for every width.
C4_EmptyTokenRejected ==
  \A j \in 1..Len(csvColumn) :
    (TrimSpace(csvColumn[j]) = << >> /\ k = j /\ pc # "decode") =>
      /\ pc = "failed"
      /\ err.msg \in {ErrInvalid, ErrRange}
      /\ colNumbers = << >>

\* C5: a reference with a first character is classified by it: starting
\* with a letter it is decoded as letters, and a later character outside
\* 'A'..'Z' gives 0 and the out-of-range error; otherwise it is parsed as
\* a base-10 integer and fails as invalid unless it has integer syntax.
\* No malformed reference, empty ones included, yields an index.
C5_Classification ==
  /\ \A j \in 1..Len(csvColumn) :
       DecodedOk(j) => AllLetters(Norm(csvColumn[j])) \/ IntSyntax(Norm(csvColumn[j]))
  /\ (LastRef \in 1..Len(csvColumn) /\ Norm(csvColumn[LastRef]) # << >>) =>
       LET c == Norm(csvColumn[LastRef]) IN
         /\ col = c
         /\ (c[1] \in Range(UpperSeq) /\ AllLetters(c)) =>
              colNumber = Bij26(c) /\ (pc = "failed" => err.msg = ErrRange)
         /\ (c[1] \in Range(UpperSeq) /\ ~AllLetters(c)) =>
              colNumber = 0 /\ pc = "failed" /\ err.msg = ErrRange
         /\ (c[1] \notin Range(UpperSeq) /\ IntSyntax(c)) =>
              (pc = "failed" => err.msg = ErrRange)
         /\ (c[1] \notin Range(UpperSeq) /\ ~IntSyntax(c)) =>
              pc = "failed" /\ err.msg = ErrInvalid
         /\ pc # "panic"

C5_Witness ==
  /\ csvColumn = <<<<"1", "A">>>>
  /\ pc = "failed"
  /\ err.msg = ErrInvalid

\* ------------------------------------------------------ csv run properties
InputRows == fs[inputFile].rows

\* the last position of the index list that refers to the same column as j
LastFor(idx, n, j) == \A m \in (j + 1)..n : idx[m] # idx[j]

Min(a, b) == IF a < b THEN a ELSE b

\* C6: in column-subset mode the batch of a row is its fields at the given
\* indices in list order, and returned value j lands in column indices[j]
\* of that row (the last value for a column referenced twice).
C6_SubsetMapping ==
  Len(colNumbers) > 0 =>
    \A c \in DOMAIN calls :
      LET call == calls[c]
          n == Min(Len(call.strOut), Len(colNumbers)) IN
        /\ call.strInp = [j \in 1..Len(colNumbers) |-> InputRows[call.row][colNumbers[j]]]
        /\ call.err = NoErr =>
             \A j \in 1..n :
               LastFor(colNumbers, n, j) => csv[call.row][colNumbers[j]] = call.strOut[j]

C6_Witness ==
  /\ pc = "done"
  /\ colNumbers = <<2, 1>>
  /\ Len(InputRows) = 1
  /\ csv[1] = <<Tr(Cell(1, 1)), Tr(Cell(1, 2)), Cell(1, 3)>>
  /\ calls[1].strInp = <<Cell(1, 2), Cell(1, 1)>>

\* C7: a successful run in column-subset mode writes as many rows as it
\* read, in the same order and of the same width, and every field outside
\* the referenced columns as it was read.
C7_SubsetFrame ==
  (pc = "done" /\ Len(colNumbers) > 0) =>
    LET out == fs[outputFile].rows IN
      /\ fs[outputFile].exists
      /\ Len(out) = Len(InputRows)
      /\ \A r \in DOMAIN out :
           /\ Len(out[r]) = Len(InputRows[r])
           /\ \A c \in DOMAIN out[r] :
                /\ out[r][c].src = <<r, c>>
                /\ c \notin Range(colNumbers) => out[r][c] = InputRows[r][c]

C7_Witness ==
  /\ pc = "done"
  /\ colNumbers = <<1>>
  /\ fs[outputFile].rows =
       <<<<Tr(Cell(1, 1)), Cell(1, 2)>>, <<Tr(Cell(2, 1)), Cell(2, 2)>>>>

\* C8: in whole-row mode the batch of a row is the whole row and the row
\* becomes the returned batch, in the same order.
C8_WholeRow ==
  Len(colNumbers) = 0 =>
    \A c \in DOMAIN calls :
      /\ calls[c].strInp = InputRows[calls[c].row]
      /\ calls[c].err = NoErr => csv[calls[c].row] = calls[c].strOut

C8_Witness ==
  /\ pc = "done"
  /\ csvColumn = << >>
  /\ fs[outputFile].rows = <<<<Tr(Cell(1, 1)), Tr(Cell(1, 2)), Tr(Cell(1, 3))>>>>

\* C9: when the dispatcher returns a list of another length than the batch
\* the command fails with an error: it neither writes the table nor indexes
\* past the index list.
C9_MismatchFails ==
  /\ fault # "colNumbers[k]"
  /\ pc = "done" =>
       \A c \in DOMAIN calls : Len(calls[c].strOut) = Len(calls[c].strInp)

\* C10: translateBasic and translateAdvanced return without error only
\* with one translation per input string, each that of its input.
C10_SameLength ==
  \A c \in DOMAIN calls :
    calls[c].err = NoErr =>
      /\ Len(calls[c].strOut) = Len(calls[c].strInp)
      /\ \A j \in DOMAIN calls[c].strOut : calls[c].strOut[j] = Tr(calls[c].strInp[j])

\* ------------------------------------------------------- failure properties
\* some translation call of the run returned an error
FailedCall == \E c \in DOMAIN calls : calls[c].err # NoErr

\* C11: when the translation of a row fails the csv command returns an
\* error wrapping the dispatcher's, translates no further row and never
\* calls writeSliceToCSV: no file is created or changed from then on.
C11_RowFailureAborts ==
  /\ [](FailedCall =>
          /\ pc = "failed"
          /\ \A c \in DOMAIN calls : calls[c].err # NoErr => c = Len(calls)
          /\ err = Wrap("failed to translate text", calls[Len(calls)].err)
          /\ i = Len(calls))
  /\ [][FailedCall' => fs' = fs]_vars
  /\ [][~FailedCall]_vars

C11_Witness ==
  /\ Len(calls) = 2
  /\ calls[1].err = NoErr
  /\ calls[2].err # NoErr
  /\ pc = "failed"
  /\ fs[outputFile] = OldFile

\* the translation call with outcome up got as far as the upstream request
UpstreamCalled(up) ==
  /\ up.client
  /\ useAdvanced => projectID # ""
  /\ ~useAdvanced => targetLang \in ValidLangs /\ sourceLang \in ValidLangs \cup {"auto"}

\* C12: when the upstream call fails, the error of the translation call and
\* the error the command returns carry the upstream's failure cause, in
\* advanced mode and in basic mode with "auto" or an explicit source language.
C12_CauseKept ==
  \A c \in DOMAIN calls :
    (UpstreamCalled(calls[c].up) /\ calls[c].up.fail) =>
      /\ "upstream" \in Range(calls[c].err.msg)
      /\ "upstream" \in Range(err.msg)

\* the integer a reference with integer syntax denotes, digit by digit
DecimalValue(s) ==
  LET body == IF s[1] \in {"+", "-"} THEN Tail(s) ELSE s
      abs == SumTo([j \in 1..Len(body) |->
                      (IndexOf(DigitSeq, body[j]) - 1) * Pow(10, Len(body) - j)], Len(body))
  IN IF s[1] = "-" THEN 0 - abs ELSE abs

\* the column a well-formed reference denotes
RefIndex(raw) ==
  IF AllLetters(Norm(raw)) THEN Bij26(Norm(raw)) ELSE DecimalValue(Norm(raw))

\* C13: when decodeColNumbers returns indices for a non-empty list, there
\* are as many as references and the j-th is the column the j-th reference
\* denotes: the caller's order and duplicates are kept.
C13_OrderKept ==
  (pc = "rows" /\ csvColumn # << >>) =>
    /\ Len(colNumbers) = Len(csvColumn)
    /\ \A j \in 1..Len(csvColumn) : colNumbers[j] = RefIndex(csvColumn[j])

C13_Witness ==
  /\ pc = "rows"
  /\ csvColumn = <<<<"B">>, <<"1">>>>
  /\ colNumbers = <<2, 1>>

\* C14: with an empty list of references decodeColNumbers returns an empty
\* list of indices and no error whatever the row width, and the csv command
\* then submits every row in full, one batch per row in row order.
C14_EmptyListWholeRow ==
  csvColumn = << >> =>
    /\ colNumbers = << >>
    /\ fault # "col[0]"
    /\ pc = "failed" => err.msg \notin {ErrInvalid, ErrRange}
    /\ \A c \in DOMAIN calls :
         /\ calls[c].row = c
         /\ calls[c].strInp = InputRows[c]
         /\ Len(calls[c].strInp) = csvWidth
    /\ pc = "done" => Len(calls) = Len(InputRows)

C14_Witness ==
  /\ csvColumn = << >>
  /\ pc = "done"
  /\ csvWidth = 3
  /\ Len(calls) = 2
  /\ calls[2].strInp = <<Cell(2, 1), Cell(2, 2), Cell(2, 3)>>

\* reference j denotes no column of the row
BadRef(j) ==
  LET c == Norm(csvColumn[j]) IN
    ~ \/ AllLetters(c) /\ Bij26(c) \in 1..csvWidth
      \/ IntSyntax(c) /\ DecimalValue(c) \in 1..csvWidth

FirstBadRef == CHOOSE j \in 1..Len(csvColumn) : BadRef(j) /\ \A m \in 1..(j - 1) : ~BadRef(m)

\* C15: when some reference of the list is invalid or out of range, the
\* decoder stops at the first such reference with an error that names it
\* and returns no indices, and the csv command makes no translation call
\* and writes no output.
C15_FirstFailureAborts ==
  (csv # << >> /\ pc # "decode" /\ \E j \in 1..Len(csvColumn) : BadRef(j)) =>
    /\ pc = "failed"
    /\ k = FirstBadRef
    /\ err.msg \in {ErrInvalid, ErrRange}
    /\ err.tok = Norm(csvColumn[FirstBadRef])
    /\ colNumbers = << >>
    /\ calls = << >>
    /\ fs[outputFile] \in {NoFile, OldFile}

\* C16: when the input path is the output path the csv command fails with
\* the same-file error and does nothing else: the input is not read, no
\* translation call is made and no file is created, truncated or changed.
C16_SamePathRefused ==
  /\ [](inputFile = outputFile =>
          /\ pc \in {"start", "failed"}
          /\ pc = "failed" => err = Err(<<"input file and output file are the same">>)
          /\ csv = << >>
          /\ calls = << >>
          /\ env = "")
  /\ [][inputFile = outputFile => fs' = fs]_vars

C16_Witness ==
  /\ inputFile = outputFile
  /\ pc = "failed"
  /\ fs[inputFile] = File(Table(2, 2))

\* the run has opened the input file or the output file
TouchedFiles == pc \in {"translate", "write", "done"} \/ csv # << >> \/ txtOut # << >>

\* C17: a run of the root command that reads its input or writes its output
\* has different input and output paths, and the input file is never
\* truncated or overwritten by the run that read it.
C17_PathsDiffer ==
  /\ TouchedFiles => inputFile # outputFile
  /\ txtInp # NoText => fs[inputFile] = File(<<txtInp>>)

\* C20: the root command submits the file content as a batch of one string
\* and on success the output file holds exactly the strings the translation
\* returned, in order and with nothing added.
C20_RootWritesResult ==
  /\ \A c \in DOMAIN calls : calls[c].strInp = <<txtInp>> /\ c = 1
  /\ pc = "done" =>
       /\ Len(calls) = 1
       /\ calls[1].err = NoErr
       /\ txtOut = calls[1].strOut
       /\ fs[outputFile] = File(calls[1].strOut)

C20_Witness ==
  /\ pc = "done"
  /\ txtInp = Cell(1, 1)
  /\ calls[1].strInp = <<Cell(1, 1)>>
  /\ fs[outputFile] = File(<<Tr(Cell(1, 1))>>)
  /\ inputFile # outputFile

ErrProject == <<"failed to translate text", "project ID is required for Advanced API">>

\* the upstream outcome up has a client and a non-empty answer
Answers(up) == up.client /\ ~up.fail /\ up.n > 0

\* C18: the project ID is required in advanced mode only. With the advanced
\* flag set and no project ID every call fails with the project ID error,
\* whatever the client or the service would have done, and the environment
\* is left as it was; without the flag the project ID plays no part (the
\* basic API validates the target language and succeeds with an empty
\* project ID); with the flag and a project ID the advanced API runs (no
\* language validation).
C18_ProjectOnlyAdvanced ==
  \A c \in DOMAIN calls :
    LET call == calls[c] IN
      /\ (useAdvanced /\ projectID = "") => call.err.msg = ErrProject /\ env = ""
      /\ ~(useAdvanced /\ projectID = "") => call.err.msg # ErrProject
      /\ (useAdvanced /\ projectID # "" /\ Answers(call.up)) => call.err = NoErr
      /\ (~useAdvanced /\ call.up.client /\ targetLang \notin ValidLangs) =>
           call.err.msg = <<"failed to translate text", "invalid target language code", "parse">>
      /\ (~useAdvanced /\ targetLang \in ValidLangs /\ Answers(call.up)) => call.err = NoErr

C18_Witness ==
  /\ useAdvanced
  /\ projectID = ""
  /\ credentials = "cred.json"
  /\ Len(calls) = 1
  /\ Answers(calls[1].up)
  /\ calls[1].err.msg = ErrProject
  /\ pc = "failed"

\* C19: when the service answers a request with zero translations and no
\* error, the call returns the "no translation returned" error and the run
\* stops there without writing; a call that succeeds never returns an
\* empty batch.
C19_ZeroTranslationsFail ==
  \A c \in DOMAIN calls :
    LET call == calls[c] IN
      /\ (UpstreamCalled(call.up) /\ ~call.up.fail /\ call.up.n = 0) =>
           /\ call.err.msg = <<"failed to translate text", "no translation returned">>
           /\ call.strOut = << >>
           /\ c = Len(calls)
           /\ pc = "failed"
           /\ fs[outputFile] \in {NoFile, OldFile}
      /\ call.err = NoErr => call.strOut # << >>

C19_Witness ==
  /\ useAdvanced
  /\ Len(calls) = 2
  /\ calls[1].err = NoErr
  /\ calls[2].up = [client |-> TRUE, fail |-> FALSE, n |-> 0]
  /\ calls[2].err.msg = <<"failed to translate text", "no translation returned">>
  /\ pc = "failed"

\* what a run that succeeded has to have written
FullOutput == IF command = "csv" THEN File(csv) ELSE File(txtOut)

\* C21: a process whose command ended in an error (a required flag not set,
\* a file that could not be read, created or written, a failed translation
\* call, an invalid column reference) or in a fault exits with a status
\* other than 0, and a process that exits with status 0 has written the
\* whole output file: as many rows as were read for the csv command, every
\* returned string for the root command.
C21_ExitStatus ==
  status # << >> =>
    /\ (err # NoErr \/ pc # "done") => status[1] # 0
    /\ status[1] = 0 =>
         /\ fs[outputFile] = FullOutput
         /\ command = "csv" => Len(fs[outputFile].rows) = Len(fs[inputFile].rows)
         /\ command = "root" => fs[outputFile].rows = calls[1].strOut

C21_Witness ==
  /\ status = <<1>>
  /\ command = "root"
  /\ err.msg = <<"failed to write to output file", "io">>

\* C22: the indicator prints one marker for each tick it takes from the
\* ticker and nothing else, never more markers than seconds have passed;
\* once the shutdown channel is signalled it returns in the end, it prints
\* nothing after it has returned, and none of its steps changes the state
\* of the translation pipeline.
C22_Indicator ==
  /\ [](Len(stdout) <= elapsed /\ \A j \in DOMAIN stdout : stdout[j] = ".")
  /\ [][stdout' # stdout =>
          /\ stdout' = Append(stdout, ".")
          /\ ipc = "select" /\ ipc' = "select"
          /\ tickerC = 1 /\ tickerC' = 0]_vars
  /\ [][indVars' # indVars => pipeVars' = pipeVars]_vars
  /\ [][ipc = "returned" => ipc' = "returned" /\ stdout' = stdout]_vars
  /\ (shutdownCh /\ ipc = "select") ~> (ipc = "returned")

C22_Witness ==
  /\ ipc = "returned"
  /\ stdout = <<".", ".">>
  /\ elapsed = 3
  /\ pc = "done"

\* how the decoder came out of the last reference it worked on
Outcome ==
  IF pc = "panic" THEN [kind |-> "panic", n |-> 0]
  ELSE IF pc = "failed"
    THEN [kind |-> IF err.msg = ErrInvalid THEN "invalid" ELSE "range", n |-> 0]
  ELSE [kind |-> "ok", n |-> colNumbers[LastRef]]

\* how it comes out of the reference t with the same row width
OutcomeOf(t) ==
  LET r == decodeOne(t, csvWidth)
  IN [kind |-> r.kind, n |-> IF r.kind = "ok" THEN r.colNumber ELSE 0]

\* C23: a reference is trimmed and upper-cased before it is classified:
\* whatever the decoder made of a reference t under a row width, it makes
\* the same (the same index or the same kind of failure) of t with spaces
\* around it, of t in lower case and of t in upper case.
C23_Normalised ==
  LastRef \in 1..Len(csvColumn) =>
    LET t == csvColumn[LastRef] IN
      /\ Outcome = OutcomeOf(<<" ">> \o t \o <<" ">>)
      /\ Outcome = OutcomeOf(t \o <<" ", " ">>)
      /\ Outcome = OutcomeOf(ToLower(t))
      /\ Outcome = OutcomeOf(ToUpper(t))
      /\ Outcome = OutcomeOf(TrimSpace(t))

C23_Witness ==
  /\ csvColumn = <<<<" ", "a", " ">>>>
  /\ csvWidth = 2
  /\ pc = "rows"
  /\ colNumbers = <<1>>
  /\ OutcomeOf(<<"A">>) = [kind |-> "ok", n |-> 1]

\* length first, then alphabetical order
ShortlexLess(a, b) ==
  \/ Len(a) < Len(b)
  \/ /\ Len(a) = Len(b)
     /\ \E j \in DOMAIN a :
          /\ \A m \in 1..(j - 1) : a[m] = b[m]
          /\ IndexOf(UpperSeq, a[j]) < IndexOf(UpperSeq, b[j])

\* the next letter sequence in that order: "A" -> "B", "Z" -> "AA", "AZ" -> "BA"
RECURSIVE ShortlexSucc(_)
ShortlexSucc(s) ==
  IF s = << >> THEN <<"A">>
  ELSE IF s[Len(s)] # "Z"
    THEN [s EXCEPT ![Len(s)] = UpperSeq[IndexOf(UpperSeq, s[Len(s)]) + 1]]
  ELSE Append(ShortlexSucc(SubSeq(s, 1, Len(s) - 1)), "A")

\* the letters, and sequences of two letters at both ends of the alphabet
ShortTitles ==
  {<<a>> : a \in Range(UpperSeq)} \cup {<<a, b>> : a \in {"A", "B", "Z"}, b \in {"A", "M", "Z"}}

\* C24: titleToNumber maps the letter sequences, ordered by length and then
\* alphabetically, onto 1, 2, 3, ... in that order: the next sequence gets
\* the next index, different sequences get different indices, a sequence
\* that comes earlier gets a smaller index ("Z" = 26 < "AA" = 27).
C24_OrderBijection ==
  (LastRef \in 1..Len(csvColumn) /\ AllLetters(col)) =>
    /\ colNumber >= 1
    /\ col = <<"A">> => colNumber = 1
    /\ titleToNumber(ShortlexSucc(col)) = colNumber + 1
    /\ \A s \in ShortTitles :
         LET n == titleToNumber(s) IN
           /\ (s = col) <=> (n = colNumber)
           /\ ShortlexLess(s, col) <=> (n < colNumber)

C24_Witness ==
  /\ col = <<"Z">>
  /\ colNumber = 26
  /\ titleToNumber(ShortlexSucc(col)) = 27
  /\ pc = "rows"

\* C25: in a csv run the references are resolved in one pass that is over
\* before the first translation call and is not entered again; a run that
\* succeeds over n rows has made n calls, call c for row c with fields of
\* row c only; the output file is written in one step, after the last
\* call, and nothing is called or written after that.
C25_OncePerRow ==
  /\ [](\A c \in DOMAIN calls :
          /\ calls[c].row = c
          /\ \A j \in DOMAIN calls[c].strInp : calls[c].strInp[j].src[1] = c)
  /\ [](pc = "done" => Len(calls) = Len(InputRows))
  /\ [][colNumbers' # colNumbers => pc = "decode" /\ calls = << >> /\ calls' = << >>]_vars
  /\ [][pc' = "decode" => pc \in {"start", "decode"}]_vars
  /\ [][calls' # calls => pc = "rows" /\ colNumbers' = colNumbers /\ fs' = fs]_vars
  /\ [][fs' # fs => pc = "rows" /\ Len(calls) = Len(csv) /\ calls' = calls]_vars
  /\ [][pc = "done" => calls' = calls /\ fs' = fs]_vars

C25_Witness ==
  /\ pc = "done"
  /\ colNumbers = <<2, 1>>
  /\ Len(calls) = 2
  /\ calls[2].strInp = <<Cell(2, 2), Cell(2, 1)>>
  /\ fs[outputFile].rows[2] = <<Tr(Cell(2, 1)), Tr(Cell(2, 2))>>

\* some column is referenced twice
HasDuplicate == \E a, b \in DOMAIN colNumbers : a < b /\ colNumbers[a] = colNumbers[b]

\* C26: with a column referenced more than once, the batch of a row holds
\* the field as it was read once per reference, and after a call that
\* returned one value per reference the field holds the value returned at
\* the last position that refers to it; the fields not referenced are as
\* they were read.
C26_DuplicateColumns ==
  HasDuplicate =>
    \A c \in DOMAIN calls :
      LET call == calls[c]
          n == Len(colNumbers) IN
        /\ Len(call.strInp) = n
        /\ \A j \in 1..n : call.strInp[j] = InputRows[c][colNumbers[j]]
        /\ (call.err = NoErr /\ Len(call.strOut) = n) =>
             \A f \in DOMAIN csv[c] :
               IF f \in Range(colNumbers)
                 THEN \E j \in 1..n :
                        /\ colNumbers[j] = f
                        /\ \A m \in (j + 1)..n : colNumbers[m] # f
                        /\ csv[c][f] = call.strOut[j]
                 ELSE csv[c][f] = InputRows[c][f]

C26_Witness ==
  /\ colNumbers = <<2, 2>>
  /\ pc = "done"
  /\ calls[1].strInp = <<Cell(1, 2), Cell(1, 2)>>
  /\ Len(calls[1].strOut) = 2
  /\ calls[1].strOut[1] # calls[1].strOut[2]
  /\ csv[1] = <<Cell(1, 1), calls[1].strOut[2], Cell(1, 3)>>

\* the values an error was formatted with
ErrArgs(e) == {e.tok}

\* C27: the out-of-range error of decodeColNumbers carries the reference as
\* the user wrote it and the row width it was checked against.
C27_RangeErrorDetail ==
  (pc = "failed" /\ err.msg = ErrRange) =>
    /\ csvColumn[k] \in ErrArgs(err)
    /\ Itoa(csvWidth) \in ErrArgs(err)

\* C28: every row that readCSVToSlice returned is as wide as the first row,
\* which is the width the indices were validated against, so that in
\* column-subset mode no field access row[v-1] is out of bounds, for any
\* row of the table.
C28_RowAccessInBounds ==
  /\ fault # "row[v-1]"
  /\ \A r \in DOMAIN csv : colNumbers # << >> => Len(csv[r]) = Len(csv[1])
  /\ pc \in {"decode", "rows", "done"} => csvWidth = Len(InputRows[1])
  /\ \A c \in DOMAIN calls : \A j \in DOMAIN colNumbers :
       colNumbers[j] \in 1..Len(InputRows[c])

C28_Witness ==
  /\ colNumbers = <<2>>
  /\ csvWidth = 2
  /\ Len(calls) = 2
  /\ calls[2].strInp = <<Cell(2, 2)>>

\* C29: with an input file that parses to zero rows the csv command ends
\* without an out-of-bounds access: it returns an error, or it writes an
\* empty table.
C29_EmptyInputSafe ==
  (inputFile # outputFile /\ InputRows = << >>) =>
    /\ pc # "panic"
    /\ fault = ""
    /\ pc = "done" => fs[outputFile] = File(<< >>)

\* C30: a letter reference whose value in bijective base 26 is above the
\* row width ends in the out-of-range error and yields no index, however
\* long it is: a value that no longer fits 64 bits is not accepted as a
\* column of the row after wrapping around.
C30_NoWrapAccepted ==
  \A j \in 1..Len(csvColumn) :
    LET c == Norm(csvColumn[j])
        above == Len(c) > 2 \/ Bij26(c) > csvWidth
    IN (AllLetters(c) /\ above) =>
         /\ ~DecodedOk(j)
         /\ (k = j /\ pc # "decode") => pc = "failed" /\ err.msg = ErrRange

====
